---- MODULE Spec2Model ----
(***************************************************************************)
(* The gesture-driven particle visualisation: the App component (start,    *)
(* camera, gesture loop, unmount), the VisionService detector wrapper, the *)
(* SceneController (render loop, morph/bloom/position tweens, resize,      *)
(* cleanup) and the LoadingOverlay.                                        *)
(*                                                                         *)
(* Numbers: normalized coordinates, distances, scores, the morph factor,   *)
(* the bloom strength and world coordinates are in thousandths (0.08 is    *)
(* 80).  Tween time is in tenths of a second (0.8 s is 8).  The particle   *)
(* buffers are Float32Arrays: the thousandths stand for the values a       *)
(* 32-bit float can hold, and a number stored in a buffer is rounded to    *)
(* the nearest of them.  A landmark coordinate k is the double nearest     *)
(* k/1000: what the code computes from two of them is a double that can    *)
(* lie to either side of the double nearest the result on the thousandths. *)
(***************************************************************************)
EXTENDS Integers, Sequences, FiniteSets, TLC

\* ------------------------------------------------------------------ bounds
\* start clicks modelled
MaxStarts == 1
\* start clicks modelled where a session is started again (SpecRestart)
MaxRestarts == 2
\* the video's currentTime runs from 0 to this
MaxVideoTime == 2
\* frames a controller renders
MaxFrames == 2
\* tenths of a second between two display frames
FrameTicks == 2
\* particles modelled: the first of the PARTICLE_COUNT
ParticlesModelled == 2

\* ------------------------------------------------------- program constants
PINCH_THRESHOLD == 80
EXPLODE_DISTANCE == 200
OPEN_PALM_SCORE == 500
EXPLOSION_DURATION == 8
ASSEMBLY_DURATION == 6
POSITION_DURATION == 2
OVERLAY_DURATION == 8
CAMERA_Z == 8
\* tan(75 degrees / 2), in ten-thousandths
TAN_HALF_FOV == 7673
BLOOM_REST == 1000
BLOOM_EXPLODED == 2000
ROTATION_Y_STEP == 2
ROTATION_Z_STEP == 1
COLOR_THRESHOLD == 500

\* ------------------------------------------------------------------- types
LOADING == "LOADING"
READY_TO_START == "READY_TO_START"
RUNNING == "RUNNING"
ERROR == "ERROR"
AppState == {LOADING, READY_TO_START, RUNNING, ERROR}

SPHERE == "SPHERE"
EXPLODED == "EXPLODED"
ParticleState == {SPHERE, EXPLODED}

\* detect() returning null
NoResults == [landmarks |-> <<>>, gestures |-> <<>>, isNull |-> TRUE]

Pt(x, y) == [x |-> x, y |-> y]

\* the index finger tip of every modelled hand
IndexTip == Pt(400, 500)
\* thumb tips at distance 50, 80 (to the right and to the left), 200 and 250
\* from IndexTip, on the thousandths
ThumbTips == {Pt(430, 540), Pt(480, 500), Pt(320, 500), Pt(600, 500), Pt(400, 250)}
\* the hand centre: a point up and to the left of the image centre
HandCenters == {Pt(250, 300)}

\* one hand's landmarks: the indices the mapper reads
Hands == {(4 :> t @@ 8 :> IndexTip @@ 9 :> c) : t \in ThumbTips, c \in HandCenters}

Category(name, score) == [categoryName |-> name, score |-> score]

\* results.gestures: one list of categories per hand, or none at all
GestureLists == {
    <<>>,
    << <<Category("Open_Palm", 500)>> >>,
    << <<Category("Closed_Fist", 900)>> >>,
    << <<Category("Closed_Fist", 400), Category("Open_Palm", 900)>> >> }

\* what recognizeForVideo can return: no hand, or one hand
RecognizerResults ==
    {[landmarks |-> <<>>, gestures |-> <<>>, isNull |-> FALSE]}
    \cup {[landmarks |-> <<h>>, gestures |-> g, isNull |-> FALSE] :
             h \in Hands, g \in GestureLists}

\* window.innerWidth, window.innerHeight
WindowSizes == {<<1280, 720>>, <<720, 1280>>}

Min(a, b) == IF a < b THEN a ELSE b

\* ---------------------------------------------------------------- state
VARIABLES
    \* App
    appState,           \* useState<AppState>
    mounted,            \* the App component is mounted: videoRef/canvasRef are set
    particleState,      \* useState<ParticleState>
    particleStateRef,   \* useRef<ParticleState>: the last-issued target
    debugText,          \* the status string
    sceneControllerRef, \* index into ctrls, 0 for null
    requestRef,         \* the gesture loop's last requestAnimationFrame id, 0 for undefined
    initPromise,        \* visionService.initialize(): "pending", "resolved", "rejected"
    cameraPending,      \* getUserMedia promises not settled yet
    \* VisionService
    vision,             \* [gestureRecognizer, lastVideoTime]
    \* the page
    video,              \* the <video>: [srcObject, currentTime, loadeddataListeners,
                        \*  loadeddataDue, dispatching]
    window,             \* <<innerWidth, innerHeight>>
    overlay,            \* the LoadingOverlay container: [display, opacity]
    \* SceneController instances, in order of construction
    ctrls,
    \* gsap's active tweens, in order of creation
    tweens,
    \* requestAnimationFrame
    rafQueue,           \* callbacks requested for the next frame
    frameCallbacks,     \* callbacks of the running frame not run yet
    \* what the last steps did
    mapperCall,         \* the predictWebcam call just made: what detect() returned
                        \* to it and the SceneController calls it made
    recognized,         \* recognizeForVideo calls since video.currentTime last changed
    frameLog            \* the callbacks the running frame has run, in order

appVars == <<appState, mounted, particleState, particleStateRef, debugText,
             sceneControllerRef, requestRef, initPromise, cameraPending>>
pageVars == <<video, window, overlay>>
rafVars == <<rafQueue, frameCallbacks, frameLog>>
obsVars == <<mapperCall, recognized>>
vars == <<appVars, vision, pageVars, ctrls, tweens, rafVars, obsVars>>

\* ------------------------------------------------------- requestAnimationFrame
Callback(id, fn, ctrl) == [id |-> id, fn |-> fn, ctrl |-> ctrl]

\* the handle requestAnimationFrame returns: one that names no pending callback
\* and that no reference holds. Handles are only ever compared, so the least
\* such number stands for the browser's next one
FreshId(taken) ==
    CHOOSE n \in 1..(Cardinality(taken) + 1) :
        n \notin taken /\ \A m \in 1..(n - 1) : m \in taken

Ids(queue) == {queue[k].id : k \in DOMAIN queue}

\* a frame list that runs the latest request first
RequestAnimationFrameFirst(queue, cb) == <<cb>> \o queue

\* requestAnimationFrame(cb): the callback joins the end of the next frame's list
RequestAnimationFrame(queue, cb) == Append(queue, cb)

\* cancelAnimationFrame(id)
CancelAnimationFrame(queue, id) == SelectSeq(queue, LAMBDA cb : cb.id # id)

\* ------------------------------------------------------------ gsap tweens
\* the eased progress of a tween e tenths into its d tenths, as <<numerator, denominator>>
Ease(ease, e, d) ==
    CASE ease = "power2.out" ->
            <<d * d * d - (d - e) * (d - e) * (d - e), d * d * d>>
      [] ease = "power2.inOut" ->
            IF 2 * e < d
            THEN <<4 * e * e * e, d * d * d>>
            ELSE <<d * d * d - 4 * (d - e) * (d - e) * (d - e), d * d * d>>
      [] OTHER -> \* gsap's default, power1.out
            <<d * d - (d - e) * (d - e), d * d>>

Lerp(from, to, r) == from + ((to - from) * r[1]) \div r[2]

\* the value a tween writes e tenths into its d tenths
TweenValue(from, to, ease, e, d) ==
    IF e >= d THEN to ELSE Lerp(from, to, Ease(ease, e, d))

\* gsap.to(target, {prop: to, duration, ease}): a tween not rendered yet
Tween(ctrl, prop, to, dur, ease) ==
    [ctrl |-> ctrl, prop |-> prop, to |-> to, dur |-> dur, ease |-> ease,
     elapsed |-> 0, from |-> to]

\* overwrite: true kills the target's tweens; gsap's default (false) keeps them
Overwrite(tws, ctrl, prop) == SelectSeq(tws, LAMBDA t : ~(t.ctrl = ctrl /\ t.prop = prop))
\* -------------------------------------------------------- SceneController
COLOR_CORE == "8b5cf6"
COLOR_EXPLODED == "e879f9"
COLOR_COMPACT == "8b5cf6"

\* initParticles: the sphere position of particle i (from 0) of the 5000, its
\* x, y and z rounded to the buffer's values
SpherePoint(i) ==
    CASE i = 0 -> <<0, 0, -1500>>
      [] i = 1 -> <<34, 25, -1499>>
      [] i = 2 -> <<40, -44, -1499>>
      [] OTHER -> <<-28, -68, -1498>>

\* initParticles: spherePositions, flat (x, y, z of particle 0, then of particle 1, ...)
SpherePositions ==
    [j \in 1..(3 * ParticlesModelled) |-> SpherePoint((j - 1) \div 3)[((j - 1) % 3) + 1]]

\* initParticles: points Math.random can give a particle's explosion position,
\* between SPHERE_RADIUS and EXPLOSION_RADIUS from the origin
ExplosionPoints ==
    << <<3001, -2000, 4000>>, <<-5000, 1000, 2001>>, <<1500, 0, 0>>, <<-28, -68, 7000>> >>

\* initParticles: explosionPositions, flat: the draws of Math.random
ExplosionLayouts ==
    {[j \in 1..(3 * ParticlesModelled) |->
         ExplosionPoints[((((j - 1) \div 3) + v) % Len(ExplosionPoints)) + 1][((j - 1) % 3) + 1]] :
     v \in 0..2}

\* the draw of the sessions modelled in full
SessionLayouts == {CHOOSE ex \in ExplosionLayouts : ex[1] = 3001}

\* storing the number num / den in a Float32Array: the nearest value the buffer
\* holds, the even one of two equally near
ToFloat32(num, den) ==
    LET q == num \div den
        r == num % den
    IN  IF 2 * r > den THEN q + 1
        ELSE IF 2 * r < den THEN q
        ELSE IF q % 2 = 0 THEN q ELSE q + 1

\* an interpolation with the weights of the two sets swapped
MixSwapped(sphere, explosion, factor) == ToFloat32(sphere * factor + explosion * (1000 - factor), 1000)

\* sphere * (1 - factor) + explosion * factor, stored in the position buffer
Mix(sphere, explosion, factor) == ToFloat32(sphere * (1000 - factor) + explosion * factor, 1000)

\* animate: this.frameId = requestAnimationFrame(this.animate)
ScheduleNext(c, id) == [c EXCEPT !.frameId = id, !.steps = <<"requestAnimationFrame">>]

\* animate: the rotation
Rotate(c) ==
    [c EXCEPT !.rotation = <<c.rotation[1] + ROTATION_Y_STEP, c.rotation[2] + ROTATION_Z_STEP>>,
              !.steps = Append(@, "rotation")]

\* an interpolation step that snaps the morph factor to the nearer end
InterpolateSnapping(c) ==
    LET factor == IF c.explosionFactor > 500 THEN 1000 ELSE 0
    IN  [c EXCEPT !.explosionFactor = factor,
                  !.factor = factor,
                  !.currentPositions =
                      [j \in DOMAIN c.currentPositions |->
                          Mix(c.spherePositions[j], c.explosionPositions[j], factor)],
                  !.steps = @ \o <<"positions", "needsUpdate">>]

\* animate: the factor is read, every position is interpolated, the geometry is
\* marked for upload
Interpolate(c) ==
    LET factor == c.explosionFactor
    IN  [c EXCEPT !.factor = factor,
                  !.currentPositions =
                      [j \in DOMAIN c.currentPositions |->
                          Mix(c.spherePositions[j], c.explosionPositions[j], factor)],
                  !.steps = @ \o <<"positions", "needsUpdate">>]

\* animate: the colour shift, on the factor read in this frame
ShiftColor(c) ==
    [c EXCEPT !.color = IF c.factor > COLOR_THRESHOLD THEN COLOR_EXPLODED ELSE COLOR_COMPACT,
              !.steps = Append(@, "color")]

\* animate: this.composer.render()
Render(c) == [c EXCEPT !.steps = Append(@, "render")]

\* an animate() that requests the next frame after it has rendered
animateSchedulingLast(c, id) ==
    LET done == Render(ShiftColor(Interpolate(Rotate([c EXCEPT !.steps = <<>>]))))
    IN  [done EXCEPT !.frameId = id, !.steps = Append(@, "requestAnimationFrame")]

\* the body of animate() on controller record c, with the frame id
\* requestAnimationFrame gave it
animate(c, id) == Render(ShiftColor(Interpolate(Rotate(ScheduleNext(c, id)))))

\* new SceneController(canvas), up to its call of this.animate(); explosion is
\* what initParticles drew
Constructed(size, explosion) ==
    [frameId |-> 0,
     resizeListener |-> TRUE,
     disposed |-> 0,
     explosionFactor |-> 0,
     strength |-> BLOOM_REST,
     position |-> <<0, 0, 0>>,
     rotation |-> <<0, 0>>,
     color |-> COLOR_CORE,
     aspect |-> size,
     size |-> size,
     spherePositions |-> SpherePositions,
     explosionPositions |-> explosion,
     currentPositions |-> SpherePositions,
     factor |-> 0,
     steps |-> <<>>]

\* new SceneController(canvas): the constructor ends with this.animate()
SceneController(size, id, explosion) == animate(Constructed(size, explosion), id)

\* a coordinate so large that its square is no finite double: it stands for 1e200
Huge == 2000000000

\* the number NaN
NaN == -2000000000

\* vec.sub(camera.position).normalize() leaves vec.z at 0: normalize divides by
\* the length, and the length of a ray to a Huge point is Infinity
RayIsParallel(x, y) == x >= Huge \/ x <= -Huge \/ y >= Huge \/ y <= -Huge

\* the Spatial Mapper: normalized (x, y) to the world point on the plane z = 0
\* seen through a camera at (0, 0, CAMERA_Z) with the given aspect. There is no
\* test of vec.z: for a parallel ray distance is -CAMERA_Z / -0 = Infinity, and
\* vec times Infinity is NaN in x, y and z
MapToWorld(x, y, aspect) ==
    IF RayIsParallel(x, y) THEN <<NaN, NaN, NaN>>
    ELSE
    LET ndcX == (x * 2) - 1000
        ndcY == 1000 - (y * 2)
        \* where the ray through (ndcX, ndcY) has fallen CAMERA_Z in depth
        atPlaneY == (ndcY * TAN_HALF_FOV * CAMERA_Z) \div 10000
        atPlaneX == (((ndcX * TAN_HALF_FOV * CAMERA_Z) \div 10000) * aspect[1])
                        \div aspect[2]
    IN  <<atPlaneX, atPlaneY, 0>>

\* an updateHandPosition that starts no tween
updateHandPositionNone(tws, i, c, x, y) == tws

\* updateHandPosition(x, y) on controller i: the tweens after it
updateHandPosition(tws, i, c, x, y) ==
    Append(Overwrite(tws, i, "position"),
           Tween(i, "position", MapToWorld(x, y, c.aspect), POSITION_DURATION, "power1.out"))

\* a triggerExplosion that leaves the bloom alone
triggerExplosionMorphOnly(tws, i) ==
    Append(tws, Tween(i, "explosionFactor", 1000, EXPLOSION_DURATION, "power2.out"))

\* triggerExplosion() on controller i: the tweens after it
triggerExplosion(tws, i) ==
    tws \o << Tween(i, "explosionFactor", 1000, EXPLOSION_DURATION, "power2.out"),
              Tween(i, "strength", BLOOM_EXPLODED, EXPLOSION_DURATION, "power2.out") >>

\* triggerAssembly() on controller i: the tweens after it
triggerAssembly(tws, i) ==
    tws \o << Tween(i, "explosionFactor", 0, ASSEMBLY_DURATION, "power2.inOut"),
              Tween(i, "strength", BLOOM_REST, ASSEMBLY_DURATION, "power2.inOut") >>

\* handleResize on controller record c
handleResize(c, size) == [c EXCEPT !.aspect = size, !.size = size]

\* a cleanup() that leaves the resize listener registered
cleanupKeepingListener(c) == [c EXCEPT !.disposed = c.disposed + 1]

\* cleanup() on controller record c: the record after it
cleanup(c) == [c EXCEPT !.resizeListener = FALSE, !.disposed = c.disposed + 1]

\* cleanup()'s cancelAnimationFrame: the frame callbacks left
cleanupFrames(queue, c) ==
    IF c.frameId # 0 THEN CancelAnimationFrame(queue, c.frameId) ELSE queue

\* ------------------------------------------------------ gsap's tick
\* the value a tween's target holds
Current(st, t) ==
    CASE t.prop = "opacity" -> st.overlay.opacity
      [] t.prop = "explosionFactor" -> st.ctrls[t.ctrl].explosionFactor
      [] t.prop = "strength" -> st.ctrls[t.ctrl].strength
      [] OTHER -> st.ctrls[t.ctrl].position

\* tween t, rendered e tenths in from the start value from
Written(st, t, from, e, isMounted) ==
    CASE t.prop = "opacity" ->
            [st EXCEPT !.overlay.opacity = TweenValue(from, t.to, t.ease, e, t.dur),
                       \* onComplete: if (containerRef.current) display = 'none'
                       !.overlay.display = IF e >= t.dur /\ isMounted THEN "none" ELSE @]
      [] t.prop = "explosionFactor" ->
            [st EXCEPT !.ctrls[t.ctrl].explosionFactor =
                           TweenValue(from, t.to, t.ease, e, t.dur)]
      [] t.prop = "strength" ->
            [st EXCEPT !.ctrls[t.ctrl].strength = TweenValue(from, t.to, t.ease, e, t.dur)]
      [] OTHER ->
            [st EXCEPT !.ctrls[t.ctrl].position =
                           [k \in 1..3 |-> TweenValue(from[k], t.to[k], t.ease, e, t.dur)]]

\* one tick of gsap's ticker, dt tenths after the last: every active tween
\* renders, oldest first; a tween reads its start value at its first render and
\* leaves when its time is up
RECURSIVE RenderTweens(_, _, _, _)
RenderTweens(tws, st, isMounted, dt) ==
    IF tws = <<>> THEN st
    ELSE LET t == Head(tws)
             from == IF t.elapsed = 0 THEN Current(st, t) ELSE t.from
             e == Min(t.elapsed + dt, t.dur)
             st2 == Written(st, t, from, e, isMounted)
             st3 == IF e >= t.dur THEN st2
                    ELSE [st2 EXCEPT !.tweens =
                              Append(@, [t EXCEPT !.elapsed = e, !.from = from])]
         IN  RenderTweens(Tail(tws), st3, isMounted, dt)
\* ----------------------------------------------------------- VisionService
\* a detect() that takes every frame for a new one
FrameAdvancedAlways(currentTime, lastVideoTime) == TRUE

\* detect(): is the video frame a new one
FrameAdvanced(currentTime, lastVideoTime) == currentTime # lastVideoTime

\* detect(video), the recognizer returning r if it is asked:
\* the service after the call, what the call returns, whether the recognizer ran
detect(v, currentTime, r) ==
    IF ~v.gestureRecognizer
    THEN [vision |-> v, results |-> NoResults, invoked |-> FALSE]
    ELSE IF FrameAdvanced(currentTime, v.lastVideoTime)
    THEN [vision |-> [v EXCEPT !.lastVideoTime = currentTime],
          results |-> r, invoked |-> TRUE]
    ELSE [vision |-> v, results |-> NoResults, invoked |-> FALSE]

\* --------------------------------------------------- Gesture-to-State Mapper
\* the square of the distance of two landmarks, on the thousandths
DistanceSq(a, b) == (a.x - b.x) * (a.x - b.x) + (a.y - b.y) * (a.y - b.y)

\* Math.sqrt(Math.pow(a.x - b.x, 2) + Math.pow(a.y - b.y, 2)) on the doubles of
\* a modelled thumb tip and the index tip: the side of the double nearest the
\* thousandths' distance it falls on (-1 below, 0 on it, 1 above)
DistanceRounding(a, b) ==
    CASE a = Pt(430, 540) /\ b = IndexTip -> 1     \* 0.05000000000000002
      [] a = Pt(480, 500) /\ b = IndexTip -> -1    \* 0.07999999999999996
      [] a = Pt(320, 500) /\ b = IndexTip -> 1     \* 0.08000000000000002
      [] a = Pt(600, 500) /\ b = IndexTip -> -1    \* 0.19999999999999996
      [] a = Pt(400, 250) /\ b = IndexTip -> 0     \* 0.25

\* the distance the code computes: the thousandths' square and the rounding
Distance(a, b) == [sq |-> DistanceSq(a, b), rounding |-> DistanceRounding(a, b)]

\* distance < threshold, the threshold being the double nearest it
Below(distance, threshold) ==
    \/ distance.sq < threshold * threshold
    \/ distance.sq = threshold * threshold /\ distance.rounding < 0

\* distance > threshold
Above(distance, threshold) ==
    \/ distance.sq > threshold * threshold
    \/ distance.sq = threshold * threshold /\ distance.rounding > 0

\* a pinch test on the thousandths that takes the threshold itself for a pinch
IsPinchInclusive(distance) == distance.sq <= PINCH_THRESHOLD * PINCH_THRESHOLD

\* distance < PINCH_THRESHOLD
IsPinch(distance) == Below(distance, PINCH_THRESHOLD)

\* detectedGestures.some(g => g.categoryName === 'Open_Palm' && g.score > 0.5)
IsOpenPalm(gestures) ==
    LET detectedGestures == IF Len(gestures) > 0 THEN gestures[1] ELSE <<>>
    IN  \E k \in 1..Len(detectedGestures) :
            /\ detectedGestures[k].categoryName = "Open_Palm"
            /\ detectedGestures[k].score > OPEN_PALM_SCORE

\* isOpenPalm || distance > 0.2
IsExplode(distance, isOpenPalm) == isOpenPalm \/ Above(distance, EXPLODE_DISTANCE)

\* a mapper that issues a transition for every result with a target
ShouldIssueAlways(ref, target) == TRUE

\* a transition is issued when the target is not the last-issued one
ShouldIssue(ref, target) == ref # target

\* a no-hand branch that also returns the cloud to the assembled target
NoHandAssembling(ref, tws, i) ==
    [ref |-> SPHERE, tweens |-> triggerAssembly(tws, i), calls |-> <<"triggerAssembly">>,
     debugText |-> "No Hand Detected"]

\* predictWebcam's else branch: no result, or a result without a hand
NoHand(ref, tws, i) ==
    [ref |-> ref, tweens |-> tws, calls |-> <<>>, debugText |-> "No Hand Detected"]

\* predictWebcam from the detector's result on: the last-issued target, the
\* tweens, the status and the SceneController calls made, for controller i
GestureStep(res, ref, tws, i, c) ==
    IF ~res.isNull /\ Len(res.landmarks) > 0
    THEN LET landmarks == res.landmarks[1]
             tws1 == updateHandPosition(tws, i, c, landmarks[9].x, landmarks[9].y)
             distance == Distance(landmarks[4], landmarks[8])
         IN  IF IsPinch(distance)
             THEN IF ShouldIssue(ref, SPHERE)
                  THEN [ref |-> SPHERE, tweens |-> triggerAssembly(tws1, i),
                        calls |-> <<"updateHandPosition", "triggerAssembly">>,
                        debugText |-> "Gesture: Pinch (Create)"]
                  ELSE [ref |-> ref, tweens |-> tws1,
                        calls |-> <<"updateHandPosition">>,
                        debugText |-> "Gesture: Pinch (Create)"]
             ELSE IF IsExplode(distance, IsOpenPalm(res.gestures))
             THEN IF ShouldIssue(ref, EXPLODED)
                  THEN [ref |-> EXPLODED, tweens |-> triggerExplosion(tws1, i),
                        calls |-> <<"updateHandPosition", "triggerExplosion">>,
                        debugText |-> "Gesture: Open Palm (Explode)"]
                  ELSE [ref |-> ref, tweens |-> tws1,
                        calls |-> <<"updateHandPosition">>,
                        debugText |-> "Gesture: Open Palm (Explode)"]
             ELSE [ref |-> ref, tweens |-> tws1,
                   calls |-> <<"updateHandPosition">>,
                   debugText |-> "Gesture: Tracking..."]
    ELSE NoHand(ref, tws, i)

\* no predictWebcam call was just made
Idle == [ran |-> FALSE, returned |-> FALSE, results |-> NoResults, calls |-> <<>>]

\* ---------------------------------------------------------------------- Init
Init ==
    /\ appState = LOADING
    /\ mounted = TRUE
    /\ particleState = SPHERE
    /\ particleStateRef = SPHERE
    /\ debugText = ""
    /\ sceneControllerRef = 0
    /\ requestRef = 0
    /\ initPromise = "pending"
    /\ cameraPending = 0
    /\ vision = [gestureRecognizer |-> FALSE, lastVideoTime |-> -1]
    /\ video = [srcObject |-> FALSE, currentTime |-> 0,
                loadeddataListeners |-> 0, loadeddataDue |-> FALSE,
                dispatching |-> 0]
    /\ window = <<1280, 720>>
    /\ overlay = [display |-> "block", opacity |-> 1000]
    /\ ctrls = <<>>
    /\ tweens = <<>>
    \* gsap's ticker runs from the import of gsap on
    /\ rafQueue = <<Callback(1, "gsap", 0)>>
    /\ frameCallbacks = <<>>
    /\ mapperCall = Idle
    /\ recognized = 0
    /\ frameLog = <<>>

\* setAppState: React drops the update of an unmounted component
SetAppState(s) == appState' = IF mounted THEN s ELSE appState

\* between two display frames, and no event is being dispatched
BetweenFrames == frameCallbacks = <<>> /\ video.dispatching = 0

\* the handles of the callbacks yet to run, and the handles in use, but for the
\* one the running callback was called with:
\* those of the pending callbacks, the controllers' frameId (but controller
\* i's, which animate is overwriting) and requestRef
Requested ==
    Ids(rafQueue) \cup (IF frameCallbacks = <<>> THEN {} ELSE Ids(Tail(frameCallbacks)))

Taken(i) ==
    Requested \cup {ctrls[j].frameId : j \in DOMAIN ctrls \ {i}} \cup {requestRef}

\* the frames controller record c has rendered
Rendered(c) == c.rotation[2] \div ROTATION_Z_STEP

\* ------------------------------------------------------------------- App
\* visionService.initialize() resolves
InitializeResolved ==
    /\ BetweenFrames
    /\ initPromise = "pending"
    /\ initPromise' = "resolved"
    /\ vision' = [vision EXCEPT !.gestureRecognizer = TRUE]
    /\ SetAppState(READY_TO_START)
    /\ mapperCall' = Idle
    /\ UNCHANGED <<mounted, particleState, particleStateRef, debugText,
                   sceneControllerRef, requestRef, cameraPending, pageVars, ctrls,
                   tweens, rafVars, recognized>>

\* visionService.initialize() rejects
InitializeRejected ==
    /\ BetweenFrames
    /\ initPromise = "pending"
    /\ initPromise' = "rejected"
    /\ SetAppState(ERROR)
    /\ mapperCall' = Idle
    /\ UNCHANGED <<mounted, particleState, particleStateRef, debugText,
                   sceneControllerRef, requestRef, cameraPending, vision, pageVars,
                   ctrls, tweens, rafVars, recognized>>

\* the overlay shows its button unless it is loading, until its display is none
StartButtonShown == mounted /\ appState # LOADING /\ overlay.display # "none"

\* LoadingOverlay's effect, run when isVisible changes: it fades out when hidden
OverlayEffect(tws, wasVisible, isVisible) ==
    IF wasVisible /\ ~isVisible
    THEN Append(tws, Tween(0, "opacity", 0, OVERLAY_DURATION, "power2.inOut"))
    ELSE tws

\* a click on the start button: handleStart up to its await
handleStart ==
    /\ BetweenFrames
    /\ StartButtonShown
    /\ appState' = RUNNING
    /\ LET id == FreshId(Taken(0)) IN
          /\ \E explosion \in SessionLayouts :
                ctrls' = Append(ctrls, SceneController(window, id, explosion))
          /\ rafQueue' = RequestAnimationFrame(rafQueue,
                                               Callback(id, "animate", Len(ctrls) + 1))
    /\ sceneControllerRef' = Len(ctrls) + 1
    /\ cameraPending' = cameraPending + 1
    /\ tweens' = OverlayEffect(tweens, appState # RUNNING, FALSE)
    /\ mapperCall' = Idle
    /\ UNCHANGED <<mounted, particleState, particleStateRef, debugText, requestRef,
                   initPromise, vision, pageVars, frameCallbacks, frameLog,
                   recognized>>

\* the first clicks on the start button
HandleStart == Len(ctrls) < MaxStarts /\ handleStart

\* further clicks on the start button, while it is still shown
HandleRestart == Len(ctrls) >= MaxStarts /\ Len(ctrls) < MaxRestarts /\ handleStart

\* getUserMedia resolves: handleStart after its await
CameraGranted ==
    /\ BetweenFrames
    /\ cameraPending > 0
    /\ cameraPending' = cameraPending - 1
    /\ video' = IF mounted
                THEN [srcObject |-> TRUE, currentTime |-> 0,
                      \* predictWebcam is one function (useCallback with no
                      \* dependencies): adding it again adds no listener
                      loadeddataListeners |-> 1,
                      loadeddataDue |-> TRUE, dispatching |-> 0]
                ELSE video
    /\ recognized' = IF mounted /\ video.currentTime # 0 THEN 0 ELSE recognized
    /\ mapperCall' = Idle
    /\ UNCHANGED <<appState, mounted, particleState, particleStateRef, debugText,
                   sceneControllerRef, requestRef, initPromise, vision, window,
                   overlay, ctrls, tweens, rafVars>>

\* getUserMedia rejects: handleStart's catch
CameraDenied ==
    /\ BetweenFrames
    /\ cameraPending > 0
    /\ cameraPending' = cameraPending - 1
    /\ SetAppState(ERROR)
    /\ mapperCall' = Idle
    /\ UNCHANGED <<mounted, particleState, particleStateRef, debugText,
                   sceneControllerRef, requestRef, initPromise, vision, pageVars,
                   ctrls, tweens, rafVars, recognized>>

\* predictWebcam, with the frame requests before it and what the recognizer can
\* return; it leaves the video, the controllers and the frame's own state alone
PredictWebcam(queue, recognizable) ==
    IF ~mounted \/ sceneControllerRef = 0
    THEN /\ mapperCall' = [Idle EXCEPT !.ran = TRUE, !.returned = TRUE]
         /\ rafQueue' = queue
         /\ UNCHANGED <<particleState, particleStateRef, debugText, requestRef,
                        vision, tweens, recognized>>
    ELSE \E r \in recognizable :
            LET d == detect(vision, video.currentTime, r)
                g == GestureStep(d.results, particleStateRef, tweens,
                                 sceneControllerRef, ctrls[sceneControllerRef])
            IN  /\ vision' = d.vision
                /\ recognized' = IF d.invoked THEN recognized + 1 ELSE recognized
                /\ particleStateRef' = g.ref
                /\ particleState' = g.ref
                /\ debugText' = g.debugText
                /\ tweens' = g.tweens
                /\ requestRef' = FreshId(Taken(0) \ ({requestRef} \ Requested))
                /\ rafQueue' = RequestAnimationFrame(queue,
                                                     Callback(requestRef', "predict", 0))
                /\ mapperCall' = [ran |-> TRUE, returned |-> FALSE,
                                  results |-> d.results, calls |-> g.calls]

\* the video's loadeddata event calls its listeners one after the other: a new
\* srcObject loads again and fires it again
loadeddata(recognizable) ==
    /\ \/ video.dispatching > 0
       \/ video.loadeddataDue /\ video.loadeddataListeners > 0
    /\ video' = [video EXCEPT
                    !.loadeddataDue = FALSE,
                    !.dispatching = IF video.dispatching > 0
                                    THEN video.dispatching - 1
                                    ELSE video.loadeddataListeners - 1]
    /\ PredictWebcam(rafQueue, recognizable)
    /\ UNCHANGED <<appState, mounted, sceneControllerRef, initPromise, cameraPending,
                   window, overlay, ctrls, frameCallbacks, frameLog>>

LoadedData == frameCallbacks = <<>> /\ loadeddata(RecognizerResults)

\* the camera delivers the next video frame: between two frames, between two
\* callbacks of a frame or between two listeners of an event
VideoAdvance ==
    /\ mounted
    /\ video.srcObject
    /\ video.currentTime < MaxVideoTime
    /\ video' = [video EXCEPT !.currentTime = @ + 1]
    /\ recognized' = 0
    /\ mapperCall' = Idle
    /\ UNCHANGED <<appVars, vision, window, overlay, ctrls, tweens, rafVars>>

\* the window is resized: every registered resize listener runs
Resize ==
    /\ BetweenFrames
    /\ \E size \in WindowSizes \ {window} :
          /\ window' = size
          /\ ctrls' = [i \in DOMAIN ctrls |->
                          IF ctrls[i].resizeListener THEN handleResize(ctrls[i], size)
                          ELSE ctrls[i]]
    /\ mapperCall' = Idle
    /\ UNCHANGED <<appVars, vision, video, overlay, tweens, rafVars, recognized>>

\* the App unmounts: its cleanup effect
Unmount ==
    /\ BetweenFrames
    /\ mounted
    /\ mounted' = FALSE
    /\ LET q1 == IF requestRef # 0 THEN CancelAnimationFrame(rafQueue, requestRef)
                 ELSE rafQueue
       IN  IF sceneControllerRef # 0
           THEN /\ rafQueue' = cleanupFrames(q1, ctrls[sceneControllerRef])
                /\ ctrls' = [ctrls EXCEPT ![sceneControllerRef] = cleanup(@)]
           ELSE /\ rafQueue' = q1
                /\ ctrls' = ctrls
    /\ mapperCall' = Idle
    /\ UNCHANGED <<appState, particleState, particleStateRef, debugText,
                   sceneControllerRef, requestRef, initPromise, cameraPending, vision,
                   pageVars, tweens, frameCallbacks, frameLog, recognized>>

\* ------------------------------------------------------------ display frames
\* no controller with a frame requested has rendered MaxFrames frames
FramesLeft ==
    \A k \in DOMAIN rafQueue :
        rafQueue[k].fn = "animate" => Rendered(ctrls[rafQueue[k].ctrl]) < MaxFrames

\* a display frame begins: the callbacks requested so far are its callbacks
beginFrame ==
    /\ BetweenFrames
    /\ frameCallbacks' = rafQueue
    /\ rafQueue' = <<>>
    /\ frameLog' = <<>>
    /\ mapperCall' = Idle
    /\ UNCHANGED <<appVars, vision, pageVars, ctrls, tweens, recognized>>

BeginFrame == FramesLeft /\ beginFrame

\* the frame's next callback
NextCallback == Head(frameCallbacks)

Logged == [fn |-> NextCallback.fn, ctrl |-> NextCallback.ctrl]

\* the frame runs gsap's tick, dt tenths after the last
gsapTick(dt) ==
    /\ NextCallback.fn = "gsap"
    /\ LET st == RenderTweens(tweens,
                              [ctrls |-> ctrls, overlay |-> overlay, tweens |-> <<>>],
                              mounted, dt)
       IN  /\ ctrls' = st.ctrls
           /\ overlay' = st.overlay
           /\ tweens' = st.tweens
    /\ rafQueue' = RequestAnimationFrame(rafQueue, Callback(NextCallback.id, "gsap", 0))
    /\ frameCallbacks' = Tail(frameCallbacks)
    /\ frameLog' = Append(frameLog, Logged)
    /\ mapperCall' = Idle
    /\ UNCHANGED <<appVars, vision, video, window, recognized>>

RunGsapTick == frameCallbacks # <<>> /\ gsapTick(FrameTicks)

\* the frame runs a controller's animate
RunAnimate ==
    /\ frameCallbacks # <<>>
    /\ NextCallback.fn = "animate"
    /\ LET id == FreshId(Taken(NextCallback.ctrl)) IN
          /\ ctrls' = [ctrls EXCEPT ![NextCallback.ctrl] = animate(@, id)]
          /\ rafQueue' = RequestAnimationFrame(rafQueue,
                                               Callback(id, "animate", NextCallback.ctrl))
    /\ frameCallbacks' = Tail(frameCallbacks)
    /\ frameLog' = Append(frameLog, Logged)
    /\ mapperCall' = Idle
    /\ UNCHANGED <<appVars, vision, pageVars, tweens, recognized>>

\* the frame runs predictWebcam
RunPredictWebcam ==
    /\ frameCallbacks # <<>>
    /\ NextCallback.fn = "predict"
    /\ PredictWebcam(rafQueue, RecognizerResults)
    /\ frameCallbacks' = Tail(frameCallbacks)
    /\ frameLog' = Append(frameLog, Logged)
    /\ UNCHANGED <<appState, mounted, sceneControllerRef, initPromise, cameraPending,
                   pageVars, ctrls>>

Next ==
    \/ InitializeResolved
    \/ InitializeRejected
    \/ HandleStart
    \/ CameraGranted
    \/ CameraDenied
    \/ LoadedData
    \/ VideoAdvance
    \/ Resize
    \/ Unmount
    \/ BeginFrame
    \/ RunGsapTick
    \/ RunAnimate
    \/ RunPredictWebcam

Spec == Init /\ [][Next]_vars

\* sessions in which the start button is clicked again
NextRestart == Next \/ HandleRestart

SpecRestart == Init /\ [][NextRestart]_vars

\* ------------------------------------------------- sessions that run on
\* the frames go on while a tween is in flight
SettleFrame == ~FramesLeft /\ tweens # <<>> /\ beginFrame

\* a frame that comes a tenth of a second after the last
RunGsapTickShort == frameCallbacks # <<>> /\ gsapTick(1)

\* such a session, its window left at its size
NextSettle ==
    \/ InitializeResolved
    \/ InitializeRejected
    \/ HandleStart
    \/ CameraGranted
    \/ CameraDenied
    \/ LoadedData
    \/ VideoAdvance
    \/ Unmount
    \/ BeginFrame
    \/ SettleFrame
    \/ RunGsapTick
    \/ RunGsapTickShort
    \/ RunAnimate
    \/ RunPredictWebcam

SpecSettle == Init /\ [][NextSettle]_vars

\* ------------------------------------------------------------ the render step
\* morph factors a tween can leave between two frames
Factors == {0, 125, 250, 375, 499, 500, 501, 625, 750, 875, 1000}

\* a started session whose camera prompt is not answered, for every draw of the
\* explosion positions and with the morph factor (and the bloom) at any of Factors
InitRender ==
    /\ appState = RUNNING
    /\ mounted = TRUE
    /\ particleState = SPHERE
    /\ particleStateRef = SPHERE
    /\ debugText = ""
    /\ sceneControllerRef = 1
    /\ requestRef = 0
    /\ initPromise = "resolved"
    /\ cameraPending = 1
    /\ vision = [gestureRecognizer |-> TRUE, lastVideoTime |-> -1]
    /\ video = [srcObject |-> FALSE, currentTime |-> 0,
                loadeddataListeners |-> 0, loadeddataDue |-> FALSE,
                dispatching |-> 0]
    /\ window = <<1280, 720>>
    /\ overlay = [display |-> "none", opacity |-> 0]
    /\ \E explosion \in ExplosionLayouts, f \in Factors :
          ctrls = << [SceneController(window, 2, explosion) EXCEPT
                         !.explosionFactor = f, !.strength = BLOOM_REST + f] >>
    /\ tweens = <<>>
    /\ rafQueue = <<Callback(1, "gsap", 0), Callback(2, "animate", 1)>>
    /\ frameCallbacks = <<>>
    /\ mapperCall = Idle
    /\ recognized = 0
    /\ frameLog = <<>>

\* the display frames of such a session
NextRender ==
    \/ BeginFrame
    \/ RunGsapTick
    \/ RunAnimate

SpecRender == InitRender /\ [][NextRender]_vars

\* --------------------------------------------------------- the Spatial Mapper
\* hand centres over the image and off it, and one that is Huge
CenterXs == {-200, 0, 125, 250, 375, 500, 625, 750, 875, 1000, 1200, Huge}
CenterYs == {-200, 0, 125, 300, 500, 625, 750, 875, 1000, 1200}

\* a hand that is neither pinched nor open, its centre anywhere
WideResults ==
    {[landmarks |-> << (4 :> Pt(320, 500) @@ 8 :> IndexTip @@ 9 :> Pt(x, y)) >>,
      gestures |-> <<>>, isNull |-> FALSE] : x \in CenterXs, y \in CenterYs}

\* a started session whose camera was granted and has its first video frame
InitMapping ==
    /\ appState = RUNNING
    /\ mounted = TRUE
    /\ particleState = SPHERE
    /\ particleStateRef = SPHERE
    /\ debugText = ""
    /\ sceneControllerRef = 1
    /\ requestRef = 0
    /\ initPromise = "resolved"
    /\ cameraPending = 0
    /\ vision = [gestureRecognizer |-> TRUE, lastVideoTime |-> -1]
    /\ video = [srcObject |-> TRUE, currentTime |-> 0,
                loadeddataListeners |-> 1, loadeddataDue |-> TRUE,
                dispatching |-> 0]
    /\ window = <<1280, 720>>
    /\ overlay = [display |-> "block", opacity |-> 1000]
    /\ \E explosion \in SessionLayouts :
          ctrls = << SceneController(window, 2, explosion) >>
    /\ tweens = OverlayEffect(<<>>, TRUE, FALSE)
    /\ rafQueue = <<Callback(1, "gsap", 0), Callback(2, "animate", 1)>>
    /\ frameCallbacks = <<>>
    /\ mapperCall = Idle
    /\ recognized = 0
    /\ frameLog = <<>>

\* the first gesture cycle of such a session, on a hand anywhere
LoadedDataWide == frameCallbacks = <<>> /\ loadeddata(WideResults)

SpecMapping == InitMapping /\ [][LoadedDataWide]_vars
\* ================================================================== claims
\* a predictWebcam call was just made and got past its guard
MapperRan == mapperCall.ran /\ ~mapperCall.returned

\* the result that call got from detect() holds a hand
HandSeen(call) == ~call.results.isNull /\ Len(call.results.landmarks) > 0

\* the thumb-tip/index-tip distance of that hand
TipDistance(call) ==
    LET hand == call.results.landmarks[1]
    IN  Distance(hand[4], hand[8])

\* the result classifies the hand as an open palm above the confidence threshold
OpenPalmSeen(call) ==
    /\ Len(call.results.gestures) > 0
    /\ \E k \in DOMAIN call.results.gestures[1] :
          /\ call.results.gestures[1][k].categoryName = "Open_Palm"
          /\ call.results.gestures[1][k].score > 500

\* the target the specification computes from that call's result, "none" for no change
ComputedTarget(call) ==
    IF ~HandSeen(call) THEN "none"
    ELSE IF Below(TipDistance(call), 80) THEN SPHERE
    ELSE IF OpenPalmSeen(call) \/ Above(TipDistance(call), 200) THEN EXPLODED
    ELSE "none"

\* the morph tweens among tws: those on an explosionFactor
MorphTweens(tws) == SelectSeq(tws, LAMBDA t : t.prop = "explosionFactor")

\* C1: a predictWebcam call issues a transition exactly when the target computed
\* from its detector result differs from the last-issued target, and then it
\* issues that one transition: one more morph tween, to the target's value, on
\* the current controller, and the target becomes the last-issued one. A result
\* with the last-issued target (the pinch results at session start, the second
\* of two equal results) or with no target starts no tween.
C1_TransitionOnlyOnChange ==
    [][ MapperRan' =>
          LET target == ComputedTarget(mapperCall')
              before == MorphTweens(tweens)
              after == MorphTweens(tweens')
          IN  IF target # "none" /\ target # particleStateRef
              THEN /\ Len(after) = Len(before) + 1
                   /\ SubSeq(after, 1, Len(before)) = before
                   /\ after[Len(after)].to = (IF target = EXPLODED THEN 1000 ELSE 0)
                   /\ after[Len(after)].ctrl = sceneControllerRef
                   /\ particleStateRef' = target
              ELSE /\ after = before
                   /\ particleStateRef' = particleStateRef ]_vars

\* C1 witness: a second explode result in a row was processed and started no
\* tween: the explosion of the first is the only morph tween
C1_Witness ==
    /\ MapperRan
    /\ ComputedTarget(mapperCall) = EXPLODED
    /\ mapperCall.calls = <<"updateHandPosition">>
    /\ particleStateRef = EXPLODED
    /\ Len(MorphTweens(tweens)) = 1

\* C2: for a detector result with a hand, a distance under 0.08 makes the target
\* assembled (also when an open palm is reported); otherwise an open palm above
\* 0.5 or a distance over 0.2 makes it exploded; otherwise the previous target is
\* retained, no transition is issued and the status is 'Gesture: Tracking...'.
C2_Classification ==
    [][ MapperRan' /\ HandSeen(mapperCall') =>
          LET d == TipDistance(mapperCall')
              palm == OpenPalmSeen(mapperCall')
          IN  /\ Below(d, 80) =>
                    /\ particleStateRef' = SPHERE
                    /\ debugText' = "Gesture: Pinch (Create)"
              /\ ~Below(d, 80) /\ (palm \/ Above(d, 200)) =>
                    /\ particleStateRef' = EXPLODED
                    /\ debugText' = "Gesture: Open Palm (Explode)"
              /\ ~Below(d, 80) /\ ~Above(d, 200) /\ ~palm =>
                    /\ particleStateRef' = particleStateRef
                    /\ MorphTweens(tweens') = MorphTweens(tweens)
                    /\ debugText' = "Gesture: Tracking..." ]_vars

\* C2 witness: after an explosion, a pinching hand reported as an open palm was
\* processed, and the pinch won
C2_Witness ==
    /\ MapperRan
    /\ HandSeen(mapperCall)
    /\ TipDistance(mapperCall).sq = 50 * 50
    /\ OpenPalmSeen(mapperCall)
    /\ "triggerAssembly" \in {mapperCall.calls[k] : k \in DOMAIN mapperCall.calls}
    /\ debugText = "Gesture: Pinch (Create)"

\* C10: the recognizer runs at most once on a value of video.currentTime, and a
\* detect() call returns a result only when it ran the recognizer: a call on the
\* timestamp of the last check returns null.
C10_OncePerVideoFrame ==
    /\ recognized <= 1
    /\ MapperRan /\ ~mapperCall.results.isNull => recognized = 1
    /\ recognized = 1 => vision.lastVideoTime = video.currentTime

\* C10 witness: a gesture cycle ran on a video frame that was detected on
\* already, and detect() returned null to it
C10_Witness ==
    /\ MapperRan
    /\ mapperCall.results.isNull
    /\ vision.gestureRecognizer
    /\ recognized = 1
    /\ video.currentTime > 0
\* a controller that cleanup() was called on
Released(c) == c.disposed > 0

\* the frame callbacks not run yet, of this frame and the next
Pending == frameCallbacks \o rafQueue

\* C3: at most one tween writes a controller's explosionFactor, the one to the
\* last-issued target: a new morph target overrides the tween in flight.
C3_OneMorphTween ==
    \A i \in DOMAIN ctrls :
        LET morph == SelectSeq(MorphTweens(tweens), LAMBDA t : t.ctrl = i)
        IN  /\ Len(morph) <= 1
            /\ Len(morph) = 1 /\ i = sceneControllerRef =>
                  morph[1].to = (IF particleStateRef = EXPLODED THEN 1000 ELSE 0)

\* C4: teardown releases every render pipeline that was created exactly once: none
\* is released twice, and once the session is torn down each one is released.
C4_ReleasedExactlyOnce ==
    \A i \in DOMAIN ctrls :
        /\ ctrls[i].disposed <= 1
        /\ ~mounted => ctrls[i].disposed = 1

\* a controller after cleanup(): its frame callback is not scheduled and its
\* resize listener is not registered
TornDown(c, i, pending) ==
    /\ ~c.resizeListener
    /\ \A k \in DOMAIN pending : ~(pending[k].fn = "animate" /\ pending[k].ctrl = i)

\* C5: after cleanup() on a controller its render frame callback is cancelled
\* and its resize listener removed, and from then on no step runs its
\* per-frame step (rotation, colour, frame id) and no resize changes its camera
\* or its renderer.
C5_NothingRunsAfterCleanup ==
    [][ \A i \in DOMAIN ctrls' :
          Released(ctrls'[i]) =>
              /\ TornDown(ctrls'[i], i, Pending')
              /\ i \in DOMAIN ctrls /\ Released(ctrls[i]) =>
                    /\ ctrls'[i].rotation = ctrls[i].rotation
                    /\ ctrls'[i].color = ctrls[i].color
                    /\ ctrls'[i].frameId = ctrls[i].frameId
                    /\ ctrls'[i].aspect = ctrls[i].aspect
                    /\ ctrls'[i].size = ctrls[i].size
                    /\ ctrls'[i].disposed = ctrls[i].disposed ]_vars

\* C5 witness: a resize arrived after cleanup() and left the released
\* controller's renderer at its old size, and a frame has run since
C5_Witness ==
    \E i \in DOMAIN ctrls :
        /\ Released(ctrls[i])
        /\ ctrls[i].size # window
        /\ frameCallbacks = <<>> /\ frameLog # <<>> /\ ~mounted
        /\ \A k \in DOMAIN frameLog : frameLog[k].fn = "gsap"

\* C6: once a controller is torn down no tween changes its morph factor, its
\* bloom strength or its cloud position.
C6_NoTweenAfterTeardown ==
    [][ \A i \in DOMAIN ctrls :
          Released(ctrls[i]) =>
              /\ ctrls'[i].explosionFactor = ctrls[i].explosionFactor
              /\ ctrls'[i].strength = ctrls[i].strength
              /\ ctrls'[i].position = ctrls[i].position ]_vars

\* C7: the error state is terminal: no step takes the session from ERROR to
\* RUNNING.
C7_ErrorIsTerminal == [][appState = ERROR => appState' # RUNNING]_vars

\* C8: a session in the error state has constructed no render pipeline and has
\* no render frame callback scheduled.
C8_NoPipelineOnError ==
    appState = ERROR =>
        /\ ctrls = <<>>
        /\ \A k \in DOMAIN Pending : Pending[k].fn # "animate"

\* C9 as stated: in a frame the mapper step runs before the render step.
C9_MapperBeforeRender ==
    \A a, p \in DOMAIN frameLog :
        frameLog[a].fn = "animate" /\ frameLog[p].fn = "predict" => p < a

\* C9 as amended: the mapper step and the render step are separate frame
\* callbacks, each with its own handle, run one after the other; in a frame the
\* render step of the session's first controller runs before the mapper step.
C9_RenderBeforeMapper ==
    /\ \A a, p \in DOMAIN frameLog :
          frameLog[a] = [fn |-> "animate", ctrl |-> 1] /\ frameLog[p].fn = "predict"
              => a < p
    /\ \A j, k \in DOMAIN Pending : j # k => Pending[j].id # Pending[k].id

\* C9 witness: a frame has run the render step and then the mapper step, which
\* processed a detector result
C9_Witness ==
    /\ Len(frameLog) >= 2
    /\ frameLog[Len(frameLog) - 1] = [fn |-> "animate", ctrl |-> 1]
    /\ frameLog[Len(frameLog)].fn = "predict"
    /\ MapperRan
    /\ HandSeen(mapperCall)

\* C11: a detector result without a hand only sets the status 'No Hand
\* Detected': the last-issued target and every tween (the morph, bloom and
\* cloud position targets) stay as they are and no SceneController call is made.
C11_NoHandOnlyStatus ==
    [][ MapperRan' /\ ~mapperCall'.results.isNull /\ ~HandSeen(mapperCall') =>
          /\ debugText' = "No Hand Detected"
          /\ particleStateRef' = particleStateRef
          /\ particleState' = particleState
          /\ tweens' = tweens
          /\ mapperCall'.calls = <<>> ]_vars

\* C11 witness: after an explosion was issued and while its tweens run, a result
\* without a hand was processed
C11_Witness ==
    /\ MapperRan
    /\ ~mapperCall.results.isNull
    /\ ~HandSeen(mapperCall)
    /\ particleStateRef = EXPLODED
    /\ debugText = "No Hand Detected"
    /\ \E k \in DOMAIN tweens : tweens[k].prop = "explosionFactor" /\ tweens[k].elapsed > 0

\* the tweens among tws on controller i's cloud position
PositionTweens(tws, i) == SelectSeq(tws, LAMBDA t : t.prop = "position" /\ t.ctrl = i)

\* how many times a predictWebcam call called the SceneController method name
CallCount(call, name) == Cardinality({k \in DOMAIN call.calls : call.calls[k] = name})

\* C12: a predictWebcam call whose detector result holds a hand calls
\* updateHandPosition exactly once, with the hand-centre landmark (index 9): after
\* it the one position tween of the current controller is a new one to the
\* world point of that landmark, whatever the gesture (pinch, explode,
\* tracking). A call without a hand makes no such call and leaves the position
\* tweens as they are.
C12_HandCenterForwardedOnce ==
    [][ MapperRan' =>
          LET i == sceneControllerRef
              after == PositionTweens(tweens', i)
          IN  IF HandSeen(mapperCall')
              THEN LET center == mapperCall'.results.landmarks[1][9] IN
                   /\ CallCount(mapperCall', "updateHandPosition") = 1
                   /\ Len(after) = 1
                   /\ after[1].elapsed = 0
                   /\ after[1].to = MapToWorld(center.x, center.y, ctrls[i].aspect)
              ELSE /\ CallCount(mapperCall', "updateHandPosition") = 0
                   /\ after = PositionTweens(tweens, i) ]_vars

\* C12 witness: a hand that is neither a pinch nor an explode gesture was
\* processed while the position tween of an earlier result was running, and its
\* centre was forwarded
C12_Witness ==
    /\ MapperRan
    /\ HandSeen(mapperCall)
    /\ debugText = "Gesture: Tracking..."
    /\ mapperCall.calls = <<"updateHandPosition">>
    /\ Len(PositionTweens(tweens, sceneControllerRef)) = 1
    /\ ctrls[sceneControllerRef].position # <<0, 0, 0>>

\* the tweens among tws on property prop of controller i
TweensOn(tws, i, prop) == SelectSeq(tws, LAMBDA t : t.prop = prop /\ t.ctrl = i)

\* C13: every morph tween has a bloom tween started with it, with the same
\* duration and easing and as far along, to the bloom target of its morph
\* target (1.0 for morph target 0, 2.0 for morph target 1); the pair ends
\* together, and the bloom strength moves in step with the morph factor.
C13_BloomFollowsMorph ==
    \A i \in DOMAIN ctrls :
        LET morph == TweensOn(tweens, i, "explosionFactor")
            bloom == TweensOn(tweens, i, "strength")
        IN  /\ Len(bloom) = Len(morph)
            /\ \A k \in DOMAIN morph :
                  /\ bloom[k].dur = morph[k].dur
                  /\ bloom[k].ease = morph[k].ease
                  /\ bloom[k].elapsed = morph[k].elapsed
                  /\ morph[k].to = 0 => bloom[k].to = 1000
                  /\ morph[k].to = 1000 => bloom[k].to = 2000
                  /\ morph[k].to \in {0, 1000}
            /\ ctrls[i].strength = 1000 + ctrls[i].explosionFactor

\* C13 witness: an explosion is in flight: the morph factor is between 0 and 1
\* and the bloom strength between 1.0 and 2.0
C13_Witness ==
    \E i \in DOMAIN ctrls :
        /\ \E k \in DOMAIN tweens :
              /\ tweens[k].ctrl = i /\ tweens[k].prop = "strength"
              /\ tweens[k].to = 2000 /\ tweens[k].elapsed > 0
        /\ ctrls[i].explosionFactor > 0 /\ ctrls[i].explosionFactor < 1000
        /\ ctrls[i].strength > 1000 /\ ctrls[i].strength < 2000

\* C14: the morph factor of every controller is within [0, 1]; it starts at 0
\* and only a tick of the tween engine changes it, for a controller that has a
\* morph tween started by triggerExplosion or triggerAssembly: the render step
\* and the gesture mapper leave it as it is.
C14_MorphFactorTweenedOnly ==
    [][ \A i \in DOMAIN ctrls' :
          /\ ctrls'[i].explosionFactor >= 0
          /\ ctrls'[i].explosionFactor <= 1000
          /\ i \notin DOMAIN ctrls => ctrls'[i].explosionFactor = 0
          /\ i \in DOMAIN ctrls /\ ctrls'[i].explosionFactor # ctrls[i].explosionFactor =>
                /\ frameCallbacks # <<>>
                /\ Head(frameCallbacks).fn = "gsap"
                /\ TweensOn(tweens, i, "explosionFactor") # <<>>
                /\ \A k \in DOMAIN tweens :
                      tweens[k].prop = "explosionFactor" =>
                          tweens[k].to \in {0, 1000} /\ tweens[k].dur \in {6, 8} ]_vars

\* C14 witness: the render step has just read a morph factor that a tween left
\* between 0 and 1
C14_Witness ==
    \E i \in DOMAIN ctrls :
        /\ ctrls[i].explosionFactor > 0 /\ ctrls[i].explosionFactor < 1000
        /\ ctrls[i].factor = ctrls[i].explosionFactor
        /\ frameLog # <<>> /\ frameLog[Len(frameLog)] = [fn |-> "animate", ctrl |-> i]

\* the colour and the step order a render frame leaves, the colour being
\* thresholded on the factor read in the frame
FrameLeft(c, order) ==
    /\ c.steps = order
    /\ c.factor > 500 => c.color = "e879f9"
    /\ c.factor <= 500 => c.color = "8b5cf6"
    /\ c.rotation[1] = 2 * c.rotation[2]

\* C15 as stated: a render frame increments the rotation, recomputes the
\* positions from the factor and marks the geometry, sets the colour by the
\* threshold 0.5, runs the compositor, and then schedules the next frame.
C15_ScheduleLast ==
    \A i \in DOMAIN ctrls :
        FrameLeft(ctrls[i], <<"rotation", "positions", "needsUpdate", "color", "render",
                             "requestAnimationFrame">>)

\* C15 as amended: a render frame schedules the next frame first; then it
\* increments the rotation, recomputes the positions from the factor and marks
\* the geometry, sets the colour by the threshold 0.5 (one hue over 0.5, the
\* other otherwise), and runs the compositor.
C15_ScheduleFirst ==
    \A i \in DOMAIN ctrls :
        FrameLeft(ctrls[i], <<"requestAnimationFrame", "rotation", "positions",
                             "needsUpdate", "color", "render">>)

\* C15 witness: a frame rendered a factor just over 0.5 in the exploded hue
C15_Witness ==
    \E i \in DOMAIN ctrls :
        /\ ctrls[i].rotation = <<4, 2>>
        /\ ctrls[i].factor = 501
        /\ ctrls[i].color = "e879f9"
        /\ \E k \in DOMAIN rafQueue : rafQueue[k] = Callback(ctrls[i].frameId, "animate", i)

\* the position buffer after a frame: every entry is the interpolation of its
\* two sources at the factor read, to the nearest value the buffer holds; the
\* sources at the ends of the range
Interpolated(c) ==
    \A j \in DOMAIN c.currentPositions :
        LET exact == c.spherePositions[j] * (1000 - c.factor) + c.explosionPositions[j] * c.factor
            held == 1000 * c.currentPositions[j]
        IN  /\ held - exact <= 500 /\ exact - held <= 500
            /\ c.factor = 0 => c.currentPositions[j] = c.spherePositions[j]
            /\ c.factor = 1000 => c.currentPositions[j] = c.explosionPositions[j]

\* no step changes the assembled or the exploded set of a controller
SetsKept ==
    \A i \in DOMAIN ctrls :
        /\ ctrls'[i].spherePositions = ctrls[i].spherePositions
        /\ ctrls'[i].explosionPositions = ctrls[i].explosionPositions

\* C16 as stated: after a frame the position buffer is the interpolation of the
\* assembled and exploded sets at the factor read: the assembled set at 0, the
\* exploded set at 1, and at 0.5 exactly the arithmetic mean of the two; the
\* two sets are never modified.
C16_ExactMean ==
    [][ /\ SetsKept
        /\ \A i \in DOMAIN ctrls' :
              /\ Interpolated(ctrls'[i])
              /\ ctrls'[i].factor = 500 =>
                    \A j \in DOMAIN ctrls'[i].currentPositions :
                        2 * ctrls'[i].currentPositions[j] =
                            ctrls'[i].spherePositions[j] + ctrls'[i].explosionPositions[j] ]_vars

\* C16 as amended: the same, but at 0.5 each coordinate is the arithmetic mean
\* of the two sources rounded to the nearest value the 32-bit float buffer
\* holds: within half a step of the mean, and the mean itself when the buffer
\* can hold it.
C16_RoundedMean ==
    [][ /\ SetsKept
        /\ \A i \in DOMAIN ctrls' :
              /\ Interpolated(ctrls'[i])
              /\ ctrls'[i].factor = 500 =>
                    \A j \in DOMAIN ctrls'[i].currentPositions :
                        LET sum == ctrls'[i].spherePositions[j] + ctrls'[i].explosionPositions[j]
                            twice == 2 * ctrls'[i].currentPositions[j]
                        IN  /\ twice - sum <= 1 /\ sum - twice <= 1
                            /\ sum % 2 = 0 => twice = sum ]_vars

\* C16 witness: a frame rendered the factor 0.5 and left a coordinate whose
\* two sources have no mean the buffer holds, and one whose mean it holds
C16_Witness ==
    \E i \in DOMAIN ctrls :
        /\ ctrls[i].rotation = <<4, 2>>
        /\ ctrls[i].factor = 500
        /\ \E j \in DOMAIN ctrls[i].currentPositions :
              /\ (ctrls[i].spherePositions[j] + ctrls[i].explosionPositions[j]) % 2 = 1
              /\ ctrls[i].currentPositions[j] # ctrls[i].spherePositions[j]
        /\ \E j \in DOMAIN ctrls[i].currentPositions :
              /\ ctrls[i].explosionPositions[j] # ctrls[i].spherePositions[j]
              /\ 2 * ctrls[i].currentPositions[j] =
                     ctrls[i].spherePositions[j] + ctrls[i].explosionPositions[j]

\* C19: a gesture cycle in which detection is skipped, the video frame not
\* having advanced since the last detection, changes nothing observable: the
\* status, the last-issued target and the tweens (the cloud position target
\* among them) are as before, and the cycle schedules the next one.
C19_SkippedCycleChangesNothing ==
    [][ /\ MapperRan'
        /\ vision.gestureRecognizer
        /\ vision.lastVideoTime = video.currentTime
        => /\ mapperCall'.results.isNull
           /\ debugText' = debugText
           /\ particleStateRef' = particleStateRef
           /\ tweens' = tweens
           /\ \E k \in DOMAIN rafQueue' : rafQueue'[k] = Callback(requestRef', "predict", 0) ]_vars

\* C17: when the ray through the hand centre is parallel to the target plane
\* (its direction's z is 0), updateHandPosition skips the update: the position
\* tweens, and so the cloud position target, are as before.
C17_ParallelRaySkipped ==
    [][ MapperRan' /\ HandSeen(mapperCall') =>
          LET center == mapperCall'.results.landmarks[1][9]
          IN  (center.x >= 2000000000 \/ center.y >= 2000000000) =>
                  PositionTweens(tweens', sceneControllerRef) =
                      PositionTweens(tweens, sceneControllerRef) ]_vars

\* C18: the morph factor and the bloom strength come to rest at the last-issued
\* target: in a running session, once no morph tween of its controller is in flight, its
\* factor is 1 and its bloom 2.0 if the last-issued target is exploded, and 0
\* and 1.0 if it is assembled.
C18_SettlesAtLastTarget ==
    /\ mounted
    /\ sceneControllerRef # 0
    /\ TweensOn(tweens, sceneControllerRef, "explosionFactor") = <<>>
    =>
        /\ particleStateRef = EXPLODED =>
              /\ ctrls[sceneControllerRef].explosionFactor = 1000
              /\ ctrls[sceneControllerRef].strength = 2000
        /\ particleStateRef = SPHERE =>
              /\ ctrls[sceneControllerRef].explosionFactor = 0
              /\ ctrls[sceneControllerRef].strength = 1000
====
